---- MODULE Spec2Model ----
(***************************************************************************)
(* A model of the OneDrive upload backend: the size-limiting wrapper of    *)
(* main.go, the upload, token and quota handlers of package api, and the   *)
(* upload-session engine and token manager of package azure that the       *)
(* handlers call.  Package azure is not among the source files; its        *)
(* operations are modelled from the written specification (sections 4.2,   *)
(* 4.3 and 4.4) and are marked as such where they are defined.             *)
(*                                                                         *)
(* Byte quantities are measured in KiB, so that 5 GiB fits the integers    *)
(* of the model checker: 1 MB is BytesPerMB = 1024 units.                  *)
(***************************************************************************)
EXTENDS Integers, Sequences, FiniteSets, TLC

VARIABLES
    req,        \* the inbound HTTP request
    pc,         \* where the server is in handling it
    resp,       \* the responses written to the ResponseWriter, in order
    tempFile,   \* the staging file: "none", "open" or "removed"
    client,     \* the AzureClient built from the config (credential fields)
    ensure,     \* what EnsureTokenValid saw and did on its last call
    params,     \* azure.UploadParams handed to client.Upload
    up,         \* the upload session of the engine
    calls,      \* token, session and quota network calls issued, in order
    sent,       \* chunk transmissions (chunk indices), in order
    acks,       \* chunk acknowledgements (chunk indices), in order
    cancelled,  \* the inbound request's context has been cancelled
    quota,      \* QuotaHandler's loop state and its response data
    written,    \* bytes io.Copy staged into the temp file
    panicked,   \* a runtime fault was raised inside Handler
    configData  \* the config text QuotaHandler parsed

vars == <<req, pc, resp, tempFile, client, ensure, params, up, calls, sent,
          acks, cancelled, quota, written, panicked, configData>>

-----------------------------------------------------------------------------
(* Bounds of the model *)

\* Files of the model span at most this many 2 MB chunks.
MaxChunks == 3
\* The identity endpoint grants a lifetime of 1..MaxExpiresIn time units.
MaxExpiresIn == 2
\* The wall clock at which the request is served.
StartTime == 5
\* The upload entry point accepts a parallelism of 1..MaxParallel (spec 4.3).
MaxParallel == 4

-----------------------------------------------------------------------------
(* Program constants *)

\* chunkSize *= 1024 * 1024, in KiB
BytesPerMB == 1024
MinChunkMB == 2
MaxChunkMB == 32
\* 5 * 1024 * 1024 * 1024 bytes, in KiB
MaxFileSize == 5 * 1024 * 1024
maxRequestSize == 5 * 1024 * 1024
\* params.MaxRetries
MaxRetries == 5

rootFolders == {"hakimionedrive", "oned", "saurajcf"}

\* The refresh margin of the token manager (spec 4.2: safety_margin).
SafetyMargin == 2

-----------------------------------------------------------------------------
(* Values *)

NoClient == [ok |-> FALSE, AccessToken |-> "", RefreshToken |-> "",
             Expiration |-> 0]
NoEnsure == [called |-> FALSE, expiry0 |-> 0, refreshes |-> 0, err |-> FALSE,
             expiresIn |-> 0]
NoParams == [ChunkSize |-> 0, ParallelChunks |-> 0, MaxRetries |-> 0,
             AccessToken |-> "", FileSize |-> 0, FileName |-> ""]
NoUpload == [status |-> "pending", err |-> "", size |-> 0, chunkSize |-> 0,
             ranges |-> <<>>, attempts |-> <<>>, inflight |-> {},
             fallback |-> FALSE, conflicted |-> {}, lastStatus |-> 0,
             failedChunk |-> 0, item |-> 0]
NoQuota == [remotes |-> <<>>, idx |-> 0, outcome |-> <<>>, data |-> {}]

\* ErrorResponse{Error: message, Details: err.Error()}
sendErrorResponse(statusCode, message) ==
    [status |-> statusCode, kind |-> "error", error |-> message,
     fields |-> {"error", "details"}]

\* http.Error(w, "Request too large", http.StatusRequestEntityTooLarge)
TooLargeResponse ==
    [status |-> 413, kind |-> "too_large", error |-> "Request too large",
     fields |-> {}]

\* w.WriteHeader(http.StatusOK) of the preflight branch
PreflightResponse ==
    [status |-> 200, kind |-> "preflight", error |-> "", fields |-> {}]

\* The "status": "success" response of the upload handler
SuccessResponse ==
    [status |-> 200, kind |-> "success", error |-> "",
     fields |-> {"status", "message", "downloadURL", "fileSize", "fileName"}]

\* TokenResponse: every credential field of the client
TokenResponse ==
    [status |-> 200, kind |-> "token", error |-> "",
     fields |-> {"access_token", "refresh_token", "expires_in", "client_id",
                 "client_secret", "drive_id", "drive_type", "base_url",
                 "upload_root_path"}]

\* RemoteQuotaInfo{Status: "success", Data: ...}
QuotaResponse ==
    [status |-> 200, kind |-> "quota", error |-> "",
     fields |-> {"status", "data"}]

\* http.Error(w, "Method not allowed", http.StatusMethodNotAllowed)
MethodNotAllowed ==
    [status |-> 405, kind |-> "error", error |-> "Method not allowed",
     fields |-> {}]

-----------------------------------------------------------------------------
(* Requests *)

Methods == {"GET", "POST", "OPTIONS"}
RemoteInputs == {"", "bogus", "oned"}
FilenameInputs == {"", "a.bin"}
ChunkSizeInputs == {"", "abc", "1", "2", "3", "32", "33"}

\* File sizes: empty, tiny, around 2..MaxChunks chunks of 2 MB, and one unit
\* past the 5 GiB limit.
SizeInputs ==
    {0, 1, MaxFileSize + 1}
      \cup {c * MinChunkMB * BytesPerMB : c \in 2..MaxChunks}
      \cup {c * MinChunkMB * BytesPerMB - 1000 : c \in 2..MaxChunks}

\* The bytes multipart framing adds to the file's.
FormOverhead == 1

UploadRequests ==
    {r \in [path : {"/upload"}, method : Methods,
            mode : {"binary", "multipart"},
            form : {"ok", "malformed", "nofile"},
            declared : BOOLEAN, remote : RemoteInputs,
            filename : FilenameInputs, chunkSizeStr : ChunkSizeInputs,
            fileSize : SizeInputs] :
        /\ r.mode = "binary" => r.form = "ok"
        /\ r.method # "POST" =>
              /\ r.remote = "oned" /\ r.filename = "a.bin"
              /\ r.chunkSizeStr = "2" /\ r.form = "ok"}

OtherRequests ==
    [path : {"/quota", "/token"}, method : Methods, mode : {"binary"},
     form : {"ok"}, declared : {TRUE}, remote : RemoteInputs,
     filename : {""}, chunkSizeStr : {""}, fileSize : {0}]

Requests == UploadRequests \cup OtherRequests

\* The request body: the file, plus the framing of a multipart form
BodySize(r) ==
    IF r.mode = "multipart" THEN r.fileSize + FormOverhead ELSE r.fileSize

\* r.ContentLength: -1 when the length is not declared
ContentLength(r) == IF r.declared THEN BodySize(r) ELSE -1

\* strconv.ParseInt(chunkSizeStr, 10, 64) on the inputs of the model
ParseInt(s) ==
    CASE s = "1" -> [err |-> FALSE, v |-> 1]
      [] s = "2" -> [err |-> FALSE, v |-> 2]
      [] s = "3" -> [err |-> FALSE, v |-> 3]
      [] s = "32" -> [err |-> FALSE, v |-> 32]
      [] s = "33" -> [err |-> FALSE, v |-> 33]
      [] OTHER -> [err |-> TRUE, v |-> 0]

\* time.Now()
now == StartTime

\* Expiry of the token stored in the config: past, within the margin, later.
ExpiryChoices ==
    {StartTime - 1, StartTime + SafetyMargin, StartTime + SafetyMargin + 1}

\* azure.NewAzureClientFromRcloneConfigData(configData, remote): an error
\* (section absent, key missing or malformed), or the section's credential.
NewAzureClientResults ==
    {NoClient} \cup
    {[ok |-> TRUE, AccessToken |-> "at0", RefreshToken |-> "rt0",
      Expiration |-> e] : e \in ExpiryChoices}

-----------------------------------------------------------------------------
(* main.go *)

Init ==
    /\ req \in Requests
    /\ pc = "recv"
    /\ resp = <<>>
    /\ tempFile = "none"
    /\ client = NoClient
    /\ ensure = NoEnsure
    /\ params = NoParams
    /\ up = NoUpload
    /\ calls = <<>>
    /\ sent = <<>>
    /\ acks = <<>>
    /\ cancelled = FALSE
    /\ quota = NoQuota
    /\ written = 0
    /\ panicked = FALSE
    /\ configData = <<>>


\* The length check skipped
RequestTooLargeUnchecked(r) == FALSE

\* if r.ContentLength > h.n
RequestTooLarge(r) == ContentLength(r) > maxRequestSize

\* http.MaxBytesReader(w, r.Body, h.n): the bytes of a body of `size` that
\* can be read before the reader fails
MaxBytesRead(size) == IF size > maxRequestSize THEN maxRequestSize ELSE size

\* maxBytesHandler.ServeHTTP, then the mux's route
ServeHTTP ==
    /\ UNCHANGED <<written, panicked, configData>>
    /\ pc = "recv"
    /\ req.path \in {"/upload", "/quota"}
    /\ IF RequestTooLarge(req)
         THEN /\ resp' = Append(resp, TooLargeResponse)
              /\ pc' = "done"
         ELSE /\ pc' = (IF req.path = "/upload" THEN "Handler"
                                                ELSE "QuotaHandler")
              /\ UNCHANGED resp
    /\ UNCHANGED <<req, tempFile, client, ensure, params, up, calls, sent,
                   acks, cancelled, quota>>

-----------------------------------------------------------------------------
(* api/upload.go: Handler *)


\* The chunk size check without its upper bound
ValidChunkSizeNoUpper(mb) == mb >= MinChunkMB

\* The chunk size check: chunkSize < 2 || chunkSize > 32 is an error
ValidChunkSize(mb) == mb >= MinChunkMB /\ mb <= MaxChunkMB


\* The chunk size left in MB
ChunkSizeNotConverted(mb) == mb

\* chunkSize *= 1024 * 1024
ChunkSizeBytes(mb) == mb * BytesPerMB

\* The error response of the first check of Handler that fails before the
\* client is built, or PreflightResponse for OPTIONS; status 0 when all pass.
HandlerValidate(r) ==
    LET n == ParseInt(r.chunkSizeStr) IN
    IF r.method = "OPTIONS" THEN PreflightResponse
    ELSE IF r.method # "POST"
      THEN sendErrorResponse(405, "Method not allowed")
    ELSE IF r.mode = "multipart"
            /\ (r.form = "malformed" \/ BodySize(r) > maxRequestSize)
      THEN sendErrorResponse(400, "Unable to parse form data")
    ELSE IF r.mode = "multipart" /\ r.form = "nofile"
      THEN sendErrorResponse(400, "Unable to read file")
    ELSE IF r.remote = "" THEN sendErrorResponse(400, "Invalid request")
    ELSE IF r.remote \notin rootFolders
      THEN sendErrorResponse(400, "Invalid request")
    ELSE IF r.filename = "" THEN sendErrorResponse(400, "Invalid request")
    ELSE IF r.chunkSizeStr = "" THEN sendErrorResponse(400, "Invalid request")
    ELSE IF n.err \/ ~ValidChunkSize(n.v)
      THEN sendErrorResponse(400, "Invalid request")
    ELSE [status |-> 0, kind |-> "pass", error |-> "", fields |-> {}]

\* The UploadParams literal of Handler
UploadParamsOf(r, cl) ==
    [ChunkSize |-> ChunkSizeBytes(ParseInt(r.chunkSizeStr).v),
     ParallelChunks |-> 1,
     MaxRetries |-> MaxRetries,
     AccessToken |-> cl.AccessToken,
     FileSize |-> r.fileSize,
     FileName |-> r.filename]


\* A temp file removed only at the end of the success path
TempFileAtReturnOnSuccessOnly(tf, path) ==
    IF tf = "open" /\ path = "success" THEN "removed" ELSE tf

\* defer func() { tempFile.Close(); os.Remove(tempFile.Name()) }(): runs on
\* every path by which Handler ends once the temp file has been created
TempFileAtReturn(tf, path) == IF tf = "open" THEN "removed" ELSE tf

\* Handler up to its call of client.Upload: validation, client construction,
\* staging of the body into the temp file.
Handler ==
    /\ pc = "Handler"
    /\ \E cl \in NewAzureClientResults, tmpOk \in BOOLEAN, ioOk \in BOOLEAN :
         LET v == HandlerValidate(req)
             copied == IF ioOk THEN MaxBytesRead(req.fileSize) ELSE 0
             copyOk == ioOk /\ copied = req.fileSize
         IN
         IF v.status # 0
           THEN /\ resp' = Append(resp, v)
                /\ pc' = "done"
                /\ UNCHANGED <<tempFile, client, params, up, written>>
         ELSE IF ~cl.ok
           THEN /\ resp' = Append(resp, sendErrorResponse(500,
                                     "Failed to initialize Azure client"))
                /\ pc' = "done"
                /\ UNCHANGED <<tempFile, client, params, up, written>>
         ELSE IF ~tmpOk
           THEN /\ resp' = Append(resp, sendErrorResponse(500,
                                     "Unable to create temp file"))
                /\ pc' = "done"
                /\ client' = cl
                /\ UNCHANGED <<tempFile, params, up, written>>
         ELSE IF ~copyOk
           THEN /\ resp' = Append(resp, sendErrorResponse(500,
                                     "Unable to save file"))
                /\ pc' = "done"
                /\ client' = cl
                /\ tempFile' = TempFileAtReturn("open", "copy_failure")
                /\ written' = copied
                /\ UNCHANGED <<params, up>>
         ELSE /\ client' = cl
              /\ tempFile' = "open"
              /\ written' = copied
              /\ params' = UploadParamsOf(req, cl)
              /\ up' = NoUpload
              /\ pc' = "upload_validate"
              /\ UNCHANGED resp
    /\ UNCHANGED <<req, ensure, calls, sent, acks, cancelled, quota, panicked,
                   configData>>

-----------------------------------------------------------------------------
(* package azure: the token manager (spec 4.2) *)


\* A comparison the wrong way round: a token is refreshed while still valid
NeedsRefreshInverted(t, expiry) == t + SafetyMargin < expiry

\* A refresh only once the token has expired: the margin is ignored
NeedsRefreshNoMargin(t, expiry) == ~(t < expiry)

\* The token is refreshed unless now + safety_margin < expiry.
NeedsRefresh(t, expiry) == ~(t + SafetyMargin < expiry)

\* The identity endpoint's answers to a refresh-token grant: a failure
\* (non-2xx or transport), or a token with its lifetime.
RefreshReplies ==
    {[ok |-> FALSE, expires_in |-> 0]} \cup
    {[ok |-> TRUE, expires_in |-> e] : e \in 1..MaxExpiresIn}

RefreshCall(cl) ==
    [kind |-> "refresh", token |-> cl.RefreshToken, expiry |-> 0]

\* The credential after a successful refresh: expiry = now + expires_in.
Refreshed(cl, rep) ==
    [cl EXCEPT !.AccessToken = "at1", !.Expiration = now + rep.expires_in]

\* client.EnsureTokenValid(httpClient), continuing at okPc or errPc
EnsureTokenValid(okPc, errPc) ==
    IF ~NeedsRefresh(now, client.Expiration)
      THEN /\ ensure' = [called |-> TRUE, expiry0 |-> client.Expiration,
                         refreshes |-> 0, err |-> FALSE, expiresIn |-> 0]
           /\ pc' = okPc
           /\ UNCHANGED <<client, calls>>
      ELSE \E rep \in RefreshReplies :
             /\ calls' = Append(calls, RefreshCall(client))
             /\ ensure' = [called |-> TRUE, expiry0 |-> client.Expiration,
                           refreshes |-> 1, err |-> ~rep.ok,
                           expiresIn |-> rep.expires_in]
             /\ client' = IF rep.ok THEN Refreshed(client, rep) ELSE client
             /\ pc' = IF rep.ok THEN okPc ELSE errPc

-----------------------------------------------------------------------------
(* package azure: the upload session (spec 4.3) *)

\* The byte ranges [start, end) of a file of `size` in chunks of `chunkSize`
RECURSIVE RangesFrom(_, _, _)
RangesFrom(start, size, chunkSize) ==
    IF start >= size THEN <<>>
    ELSE LET end == IF start + chunkSize < size THEN start + chunkSize
                                               ELSE size
         IN <<[start |-> start, end |-> end]>>
              \o RangesFrom(end, size, chunkSize)

ChunkRanges(size, chunkSize) == RangesFrom(0, size, chunkSize)

\* The preconditions of an upload
ValidUpload(p) ==
    /\ 0 < p.FileSize /\ p.FileSize <= MaxFileSize
    /\ MinChunkMB * BytesPerMB <= p.ChunkSize
    /\ p.ChunkSize <= MaxChunkMB * BytesPerMB
    /\ p.FileName # ""

Failed(kind) == [up EXCEPT !.status = "failed", !.err = kind]

\* Upload, step 0: the preconditions, before any network call
UploadValidate ==
    /\ UNCHANGED <<written, panicked, configData>>
    /\ pc = "upload_validate"
    /\ IF ValidUpload(params)
         THEN /\ up' = [up EXCEPT !.size = params.FileSize,
                                  !.chunkSize = params.ChunkSize]
              /\ pc' = "upload_ensure"
         ELSE /\ up' = Failed("ValidationError")
              /\ pc' = "upload_returned"
    /\ UNCHANGED <<req, resp, tempFile, client, ensure, params, calls, sent,
                   acks, cancelled, quota>>

\* Upload: the token is made valid before the session is created
UploadEnsureToken ==
    /\ UNCHANGED <<written, panicked, configData>>
    /\ pc = "upload_ensure"
    /\ EnsureTokenValid("upload_session", "upload_returned")
    /\ up' = IF pc' = "upload_returned" THEN Failed("TokenError") ELSE up
    /\ UNCHANGED <<req, resp, tempFile, params, sent, acks, cancelled, quota>>

SessionCall(cl) ==
    [kind |-> "session", token |-> cl.AccessToken, expiry |-> cl.Expiration]

\* Upload, step 1: the create-upload-session call; non-2xx is a SessionError
CreateUploadSession ==
    /\ UNCHANGED <<written, panicked, configData>>
    /\ pc = "upload_session"
    /\ calls' = Append(calls, SessionCall(client))
    /\ \E ok \in BOOLEAN :
         IF ok THEN /\ up' = [up EXCEPT !.status = "uploading"]
                    /\ pc' = "upload_partition"
               ELSE /\ up' = Failed("SessionError")
                    /\ pc' = "upload_returned"
    /\ UNCHANGED <<req, resp, tempFile, client, ensure, params, sent, acks,
                   cancelled, quota>>

\* Upload, step 2: the ordered chunk ranges
UploadPartition ==
    /\ UNCHANGED <<written, panicked, configData>>
    /\ pc = "upload_partition"
    /\ LET rs == ChunkRanges(up.size, up.chunkSize) IN
         up' = [up EXCEPT !.ranges = rs,
                          !.attempts = [i \in 1..Len(rs) |-> 0]]
    /\ pc' = "upload_transport"
    /\ UNCHANGED <<req, resp, tempFile, client, ensure, params, calls, sent,
                   acks, cancelled, quota>>

NumChunks == Len(up.ranges)
Acked == {acks[i] : i \in 1..Len(acks)}

\* The cancellation signal the upload observes.  Handler calls
\* client.Upload(http.DefaultClient, params): neither argument carries the
\* request's context, so the upload never sees the request cancelled.
UploadCtxDone == FALSE

\* The transport window: the configured parallelism, or 1 after a conflict
EffectiveParallelism == IF up.fallback THEN 1 ELSE params.ParallelChunks


\* A window filled without waiting for the lower offsets
CanDispatchUnordered(k) ==
    /\ k \notin up.inflight
    /\ k \notin Acked
    /\ Cardinality(up.inflight) < EffectiveParallelism

\* A chunk may be dispatched once every lower-offset chunk is acknowledged
\* and the window has room.
CanDispatch(k) ==
    /\ k \notin up.inflight
    /\ k \notin Acked
    /\ Cardinality(up.inflight) < EffectiveParallelism
    /\ \A j \in 1..(k - 1) : j \in Acked

\* Upload, step 3/4: transmit chunk k
DispatchChunk(k) ==
    /\ UNCHANGED <<written, panicked, configData>>
    /\ pc = "upload_transport"
    /\ ~UploadCtxDone
    /\ CanDispatch(k)
    /\ sent' = Append(sent, k)
    /\ up' = [up EXCEPT !.inflight = @ \cup {k}, !.attempts[k] = @ + 1]
    /\ UNCHANGED <<req, pc, resp, tempFile, client, ensure, params, calls,
                   acks, cancelled, quota>>

ChunkStatuses == {200, 201, 202, 409, 500}

\* 200/201 on the final chunk, 202 on an intermediate one
Accepted(k, status) ==
    IF k = NumChunks THEN status \in {200, 201} ELSE status = 202


\* A retry limit that is off by one
RetriesLeftOneMore(k) == up.attempts[k] - 1 <= params.MaxRetries

\* A failed chunk is retried while it has been retried fewer than
\* maxRetries times.
RetriesLeft(k) == up.attempts[k] - 1 < params.MaxRetries

\* A conflict response to a chunk of a pipelined upload
IsConflict(status) == status = 409 /\ params.ParallelChunks > 1


\* A fallback that lasts only while the last answer was a conflict
FallbackWhileConflict(fallback, status) == IsConflict(status)

\* Any conflict response forces the fallback, for the rest of the operation
FallbackAfter(fallback, status) == fallback \/ IsConflict(status)

\* Upload, step 4: the server's answer to chunk k
ChunkReply(k, status) ==
    /\ UNCHANGED <<written, panicked, configData>>
    /\ pc = "upload_transport"
    /\ k \in up.inflight
    /\ IF Accepted(k, status)
         THEN /\ acks' = Append(acks, k)
              /\ IF Acked \cup {k} = 1..NumChunks
                   THEN /\ up' = [up EXCEPT
                                    !.inflight = @ \ {k},
                                    !.fallback = FallbackAfter(@, status),
                                    !.status = "complete",
                                    !.lastStatus = status,
                                    !.item = up.size]
                        /\ pc' = "upload_returned"
                   ELSE /\ up' = [up EXCEPT
                                    !.inflight = @ \ {k},
                                    !.fallback = FallbackAfter(@, status)]
                        /\ pc' = pc
         ELSE /\ acks' = acks
              /\ IF RetriesLeft(k)
                   THEN /\ up' = [up EXCEPT
                                    !.inflight = @ \ {k},
                                    !.fallback = FallbackAfter(@, status),
                                    !.conflicted =
                                        IF IsConflict(status) THEN @ \cup {k}
                                                              ELSE @]
                        /\ pc' = pc
                   ELSE /\ up' = [up EXCEPT !.inflight = @ \ {k},
                                            !.fallback =
                                                FallbackAfter(@, status),
                                            !.conflicted =
                                                IF IsConflict(status)
                                                  THEN @ \cup {k} ELSE @,
                                            !.status = "failed",
                                            !.err = "SessionError",
                                            !.lastStatus = status,
                                            !.failedChunk = k]
                        /\ pc' = "upload_returned"
    /\ UNCHANGED <<req, resp, tempFile, client, ensure, params, calls, sent,
                   cancelled, quota>>

-----------------------------------------------------------------------------
(* api/upload.go: Handler, after client.Upload has returned *)


\* The error of client.Upload ignored
UploadResponseIgnoringErr(u) == SuccessResponse

\* if err != nil { sendErrorResponse(...); return } ... success response
UploadResponse(u) ==
    IF u.status = "failed"
      THEN sendErrorResponse(500, "Failed to upload file")
      ELSE SuccessResponse

\* The response, then the deferred close and removal of the temp file
HandlerFinish ==
    /\ pc = "upload_returned"
    /\ resp' = Append(resp, UploadResponse(up))
    /\ tempFile' = TempFileAtReturn(tempFile,
                       IF up.status = "failed" THEN "upload_failure"
                                               ELSE "success")
    /\ pc' = "done"
    /\ UNCHANGED <<req, client, ensure, params, up, calls, sent, acks,
                   cancelled, quota, written, panicked, configData>>

\* The places of Handler a runtime fault can be raised at: all of them are
\* before the response is written (after it only logging and the deferred
\* closes and removals run).
PanicPoints ==
    {"Handler", "upload_validate", "upload_ensure", "upload_session",
     "upload_partition", "upload_transport", "upload_returned"}


\* A fault that is not recovered: the server drops the connection
PanicPropagated(rs) == rs

\* defer func() { if err := recover(); err != nil { sendErrorResponse(w,
\* http.StatusInternalServerError, ..., "Internal server error") } }()
PanicRecovered(rs) ==
    Append(rs, sendErrorResponse(500, "Internal server error"))

\* A runtime fault inside Handler: the deferred functions run last in, first
\* out, the temp file's (if it was created) before the recovery.
HandlerPanic ==
    /\ pc \in PanicPoints
    /\ \E created \in BOOLEAN :
         /\ created => pc = "Handler" /\ HandlerValidate(req).status = 0
         /\ tempFile' = TempFileAtReturn(
                            IF created THEN "open" ELSE tempFile, "panic")
    /\ panicked' = TRUE
    /\ resp' = PanicRecovered(resp)
    /\ pc' = "done"
    /\ UNCHANGED <<req, client, ensure, params, up, calls, sent, acks,
                   cancelled, quota, written, configData>>

\* The client goes away, or the request's deadline passes
Cancel ==
    /\ UNCHANGED <<written, panicked, configData>>
    /\ pc \notin {"recv", "done"}
    /\ ~cancelled
    /\ cancelled' = TRUE
    /\ UNCHANGED <<req, pc, resp, tempFile, client, ensure, params, up, calls,
                   sent, acks, quota>>

-----------------------------------------------------------------------------
(* api/upload.go: TokenHandler *)

\* The checks of TokenHandler before the client is built; status 0: all pass
TokenValidate(r) ==
    IF r.method = "OPTIONS" THEN PreflightResponse
    ELSE IF r.method # "GET"
      THEN sendErrorResponse(405, "Method not allowed")
    ELSE IF r.remote = ""
      THEN sendErrorResponse(400, "Missing remote parameter")
    ELSE IF r.remote \notin rootFolders
      THEN sendErrorResponse(400, "Invalid remote")
    ELSE [status |-> 0, kind |-> "pass", error |-> "", fields |-> {}]

\* TokenHandler up to its call of client.EnsureTokenValid
TokenHandler ==
    /\ UNCHANGED <<written, panicked, configData>>
    /\ pc = "recv"
    /\ req.path = "/token"
    /\ \E cl \in NewAzureClientResults :
         LET v == TokenValidate(req) IN
         IF v.status # 0
           THEN /\ resp' = Append(resp, v)
                /\ pc' = "done"
                /\ UNCHANGED client
         ELSE IF ~cl.ok
           THEN /\ resp' = Append(resp, sendErrorResponse(500,
                                     "Failed to initialize Azure client"))
                /\ pc' = "done"
                /\ UNCHANGED client
         ELSE /\ client' = cl
              /\ pc' = "token_ensure"
              /\ UNCHANGED resp
    /\ UNCHANGED <<req, tempFile, ensure, params, up, calls, sent, acks,
                   cancelled, quota>>

\* client.EnsureTokenValid(http.DefaultClient)
TokenEnsureToken ==
    /\ UNCHANGED <<written, panicked, configData>>
    /\ pc = "token_ensure"
    /\ EnsureTokenValid("token_respond", "token_respond")
    /\ UNCHANGED <<req, resp, tempFile, params, up, sent, acks, cancelled,
                   quota>>


\* The error of EnsureTokenValid ignored
TokenResultIgnoringErr(e) == TokenResponse

\* if err != nil { "Failed to refresh token" } else the TokenResponse
TokenResult(e) ==
    IF e.err THEN sendErrorResponse(500, "Failed to refresh token")
             ELSE TokenResponse

TokenHandlerFinish ==
    /\ UNCHANGED <<written, panicked, configData>>
    /\ pc = "token_respond"
    /\ resp' = Append(resp, TokenResult(ensure))
    /\ pc' = "done"
    /\ UNCHANGED <<req, tempFile, client, ensure, params, up, calls, sent,
                   acks, cancelled, quota>>

-----------------------------------------------------------------------------
(* api: QuotaHandler, ParseRemotes, formatBytes.  Text is a sequence of     *)
(* one-character strings.                                                  *)

RECURSIVE TrimLeft(_, _)
TrimLeft(s, cutset) ==
    IF s # <<>> /\ Head(s) \in cutset THEN TrimLeft(Tail(s), cutset) ELSE s

RECURSIVE TrimRight(_, _)
TrimRight(s, cutset) ==
    IF s # <<>> /\ s[Len(s)] \in cutset
      THEN TrimRight(SubSeq(s, 1, Len(s) - 1), cutset)
      ELSE s

\* strings.Trim(s, cutset)
Trim(s, cutset) == TrimRight(TrimLeft(s, cutset), cutset)

\* strings.TrimSpace(s)
TrimSpace(s) == Trim(s, {" ", "\t", "\r", "\n"})

\* strings.HasPrefix(s, c), strings.HasSuffix(s, c) for a one-character c
HasPrefix(s, c) == s # <<>> /\ Head(s) = c
HasSuffix(s, c) == s # <<>> /\ s[Len(s)] = c

\* strings.Split(s, "\n"): `cur` is the line being read
RECURSIVE SplitFrom(_, _)
SplitFrom(s, cur) ==
    IF s = <<>> THEN <<cur>>
    ELSE IF Head(s) = "\n" THEN <<cur>> \o SplitFrom(Tail(s), <<>>)
    ELSE SplitFrom(Tail(s), Append(cur, Head(s)))

SplitLines(s) == SplitFrom(s, <<>>)


\* The names collected by prepending: last section first
RECURSIVE RemotesOfPrepending(_)
RemotesOfPrepending(lines) ==
    IF lines = <<>> THEN <<>>
    ELSE LET line == TrimSpace(Head(lines))
             remote == Trim(line, {"[", "]"})
         IN RemotesOfPrepending(Tail(lines))
              \o (IF HasPrefix(line, "[") /\ HasSuffix(line, "]")
                       /\ remote # <<>>
                    THEN <<remote>> ELSE <<>>)

\* for _, line := range lines { ... remotes = append(remotes, remote) }
RECURSIVE RemotesOf(_)
RemotesOf(lines) ==
    IF lines = <<>> THEN <<>>
    ELSE LET line == TrimSpace(Head(lines))
             remote == Trim(line, {"[", "]"})
         IN (IF HasPrefix(line, "[") /\ HasSuffix(line, "]") /\ remote # <<>>
               THEN <<remote>> ELSE <<>>)
              \o RemotesOf(Tail(lines))

\* ParseRemotes(config)
ParseRemotes(config) == RemotesOf(SplitLines(config))

\* The embedded rclone.conf of a build: three sections with a key line; a
\* text with padding, an empty marker, doubled brackets and a repeated
\* section; a text with no section.
ConfigTexts ==
    { <<"[", "a", "]", "\n", "k", "=", "v", "\n", "[", "b", "]", "\n",
        "[", "c", "]">>,
      <<" ", "[", "a", "]", "\r", "\n", "[", "]", "\n", "[", "[", "b", "]",
        "]", "\n", "[", "a", "]", "\n">>,
      <<"k", "=", "v">> }

unit == 1024

\* for n := bytes / unit; n >= unit; n /= unit { div *= unit; exp++ }
RECURSIVE ScaleOf(_, _, _)
ScaleOf(n, div, exp) ==
    IF n >= unit THEN ScaleOf(n \div unit, div * unit, exp + 1)
                 ELSE [div |-> div, exp |-> exp]

\* formatBytes(bytes): "%d B" below 1024, else "%.1f %ciB" of bytes / div,
\* rounded to the nearest tenth, an exact half to the even tenth
formatBytes(bytes) ==
    IF bytes < unit THEN [whole |-> bytes, frac |-> -1, unit |-> "B"]
    ELSE LET sc == ScaleOf(bytes \div unit, unit, 0)
             q == (bytes * 10) \div sc.div
             r == (bytes * 10) % sc.div
             t == IF 2 * r < sc.div THEN q
                  ELSE IF 2 * r > sc.div THEN q + 1
                  ELSE IF q % 2 = 0 THEN q ELSE q + 1
         IN [whole |-> t \div 10, frac |-> t % 10,
             unit |-> <<"K", "M", "G", "T", "P", "E">>[sc.exp + 1]]

\* &RemoteQuota{Total: formatBytes(...), ...}
RemoteQuotaOf(q) ==
    [Total |-> formatBytes(q.Total), Used |-> formatBytes(q.Used),
     Remaining |-> formatBytes(q.Remaining),
     Deleted |-> formatBytes(q.Deleted)]

\* The drive's answers to the quota read (spec 4.4): a failure, or a quota
QuotaReplies ==
    {[ok |-> FALSE, Total |-> 0, Used |-> 0, Remaining |-> 0, Deleted |-> 0],
     [ok |-> TRUE, Total |-> 5 * unit * unit, Used |-> 1280,
      Remaining |-> 5 * unit * unit - 1280, Deleted |-> 0]}

QuotaCall(cl) ==
    [kind |-> "quota", token |-> cl.AccessToken, expiry |-> cl.Expiration]

\* QuotaHandler up to its loop: the method check, the list of remotes
QuotaHandler ==
    /\ UNCHANGED <<written, panicked>>
    /\ pc = "QuotaHandler"
    /\ IF req.method # "GET"
         THEN /\ resp' = Append(resp, MethodNotAllowed)
              /\ pc' = "done"
              /\ UNCHANGED <<quota, configData>>
         ELSE /\ \E config \in ConfigTexts :
                   /\ configData' = config
                   /\ quota' = [remotes |-> ParseRemotes(config), idx |-> 1,
                                outcome |-> <<>>, data |-> {}]
              /\ pc' = "quota_loop"
              /\ UNCHANGED resp
    /\ UNCHANGED <<req, tempFile, client, ensure, params, up, calls, sent,
                   acks, cancelled>>

\* response.Data[remote] = &RemoteQuota{...}
SetData(data, remote, q) ==
    {d \in data : d.remote # remote}
      \cup {[remote |-> remote, quota |-> RemoteQuotaOf(q)]}

\* client.GetDriveQuota(httpClient) (spec 4.4): the token is made valid, then
\* the drive's root metadata is read.  A failed refresh ends it before the
\* quota call.
GetDriveQuota(cl, rep, q) ==
    IF NeedsRefresh(now, cl.Expiration) /\ ~rep.ok
      THEN [calls |-> <<RefreshCall(cl)>>, err |-> "token"]
    ELSE LET refresh == NeedsRefresh(now, cl.Expiration)
             cl2 == IF refresh THEN Refreshed(cl, rep) ELSE cl
         IN [calls |-> (IF refresh THEN <<RefreshCall(cl)>> ELSE <<>>)
                          \o <<QuotaCall(cl2)>>,
             err |-> IF q.ok THEN "" ELSE "quota"]

\* The body of the loop for `remote`: the calls it issues, its outcome and
\* the response data after it.  Either error is logged and the loop continues.
QuotaIteration(data, remote, cl, rep, q) ==
    IF ~cl.ok
      THEN [calls |-> <<>>, outcome |-> "client_error", data |-> data]
    ELSE LET g == GetDriveQuota(cl, rep, q) IN
         IF g.err # ""
           THEN [calls |-> g.calls, outcome |-> g.err \o "_error",
                 data |-> data]
           ELSE [calls |-> g.calls, outcome |-> "ok",
                 data |-> SetData(data, remote, q)]


\* A loop that stops at the first remote that fails
QuotaNextIdxStopOnError(idx, outcome) ==
    IF outcome = "ok" THEN idx + 1 ELSE Len(quota.remotes) + 1

\* for _, remote := range remotes: the next index, whatever the outcome
QuotaNextIdx(idx, outcome) == idx + 1

\* One iteration of the loop over the remotes
QuotaStep ==
    /\ UNCHANGED <<written, panicked, configData>>
    /\ pc = "quota_loop"
    /\ quota.idx <= Len(quota.remotes)
    /\ \E cl \in NewAzureClientResults, rep \in RefreshReplies,
          q \in QuotaReplies :
         LET it == QuotaIteration(quota.data, quota.remotes[quota.idx],
                                  cl, rep, q)
         IN /\ calls' = calls \o it.calls
            /\ quota' = [quota EXCEPT
                           !.idx = QuotaNextIdx(@, it.outcome),
                           !.outcome = Append(@, it.outcome),
                           !.data = it.data]
    /\ UNCHANGED <<req, pc, resp, tempFile, client, ensure, params, up, sent,
                   acks, cancelled>>

\* json.NewEncoder(w).Encode(response), after the loop
QuotaHandlerFinish ==
    /\ UNCHANGED <<written, panicked, configData>>
    /\ pc = "quota_loop"
    /\ quota.idx > Len(quota.remotes)
    /\ resp' = Append(resp, QuotaResponse)
    /\ pc' = "done"
    /\ UNCHANGED <<req, tempFile, client, ensure, params, up, calls, sent,
                   acks, cancelled, quota>>

-----------------------------------------------------------------------------

Next ==
    \/ ServeHTTP
    \/ Handler
    \/ UploadValidate
    \/ UploadEnsureToken
    \/ CreateUploadSession
    \/ UploadPartition
    \/ \E k \in 1..NumChunks : DispatchChunk(k)
    \/ \E k \in 1..NumChunks, s \in ChunkStatuses : ChunkReply(k, s)
    \/ HandlerFinish
    \/ HandlerPanic
    \/ TokenHandler
    \/ TokenEnsureToken
    \/ TokenHandlerFinish
    \/ QuotaHandler
    \/ QuotaStep
    \/ QuotaHandlerFinish
    \/ Cancel

Spec == Init /\ [][Next]_vars

-----------------------------------------------------------------------------
(* The upload entry point called directly (spec 6):                        *)
(* upload(remote, stream, size, folder, name, chunkSizeMB, parallelism)    *)

\* The retry counts the entry point is called with
MaxEngineRetries == 2

EngineParams ==
    [ChunkSize : {ChunkSizeBytes(mb) : mb \in {1, 2, 3}},
     ParallelChunks : 1..MaxParallel,
     MaxRetries : 0..MaxEngineRetries,
     AccessToken : {"at0"},
     FileSize : SizeInputs,
     FileName : {"a.bin"}]

EngineInit ==
    /\ req \in {r \in UploadRequests :
                  /\ r.method = "POST" /\ r.mode = "binary" /\ r.declared
                  /\ r.remote = "oned" /\ r.filename = "a.bin"
                  /\ r.chunkSizeStr = "2" /\ r.fileSize = 1}
    /\ pc = "upload_validate"
    /\ resp = <<>>
    /\ tempFile = "open"
    /\ client \in {cl \in NewAzureClientResults : cl.ok}
    /\ ensure = NoEnsure
    /\ params \in EngineParams
    /\ up = NoUpload
    /\ calls = <<>>
    /\ sent = <<>>
    /\ acks = <<>>
    /\ cancelled = FALSE
    /\ quota = NoQuota
    /\ written = params.FileSize
    /\ panicked = FALSE
    /\ configData = <<>>

EngineNext ==
    \/ UploadValidate
    \/ UploadEnsureToken
    \/ CreateUploadSession
    \/ UploadPartition
    \/ \E k \in 1..NumChunks : DispatchChunk(k)
    \/ \E k \in 1..NumChunks, s \in ChunkStatuses : ChunkReply(k, s)

EngineSpec == EngineInit /\ [][EngineNext]_vars

-----------------------------------------------------------------------------
(* The partition step on its own, over every file size up to a bound *)

MaxPartitionSize == 6200

PartitionInit ==
    /\ req \in {r \in [path : {"/upload"}, method : {"POST"},
                       mode : {"binary"}, form : {"ok"}, declared : {TRUE},
                       remote : {"oned"}, filename : {"a.bin"},
                       chunkSizeStr : ChunkSizeInputs,
                       fileSize : 1..MaxPartitionSize] :
                  HandlerValidate(r).status = 0}
    /\ pc = "upload_partition"
    /\ resp = <<>>
    /\ tempFile = "open"
    /\ client \in {cl \in NewAzureClientResults :
                     cl.ok /\ ~NeedsRefresh(now, cl.Expiration)}
    /\ ensure = NoEnsure
    /\ params = UploadParamsOf(req, client)
    /\ up = [NoUpload EXCEPT !.status = "uploading",
                             !.size = params.FileSize,
                             !.chunkSize = params.ChunkSize]
    /\ calls = <<>>
    /\ sent = <<>>
    /\ acks = <<>>
    /\ cancelled = FALSE
    /\ quota = NoQuota
    /\ written = params.FileSize
    /\ panicked = FALSE
    /\ configData = <<>>

PartitionSpec == PartitionInit /\ [][UploadPartition]_vars

-----------------------------------------------------------------------------
(* ParseRemotes on its own, over every config text up to a bound *)

\* Config texts of the model have at most this many characters.
MaxConfigLen == 7

\* Brackets, a name character, a space and the line separator
ConfigChars == {"[", "]", "a", " ", "\n"}

ParseInputs == UNION {[1..n -> ConfigChars] : n \in 0..MaxConfigLen}

ParseInit ==
    /\ req = [path |-> "/quota", method |-> "GET", mode |-> "binary",
              form |-> "ok", declared |-> TRUE, remote |-> "",
              filename |-> "", chunkSizeStr |-> "", fileSize |-> 0]
    /\ pc = "QuotaHandler"
    /\ resp = <<>>
    /\ tempFile = "none"
    /\ client = NoClient
    /\ ensure = NoEnsure
    /\ params = NoParams
    /\ up = NoUpload
    /\ calls = <<>>
    /\ sent = <<>>
    /\ acks = <<>>
    /\ cancelled = FALSE
    /\ quota = NoQuota
    /\ written = 0
    /\ panicked = FALSE
    /\ configData \in ParseInputs

\* remotes := ParseRemotes(string(configData))
ListRemotes ==
    /\ pc = "QuotaHandler"
    /\ quota' = [remotes |-> ParseRemotes(configData), idx |-> 1,
                 outcome |-> <<>>, data |-> {}]
    /\ pc' = "quota_loop"
    /\ UNCHANGED <<req, resp, tempFile, client, ensure, params, up, calls,
                   sent, acks, cancelled, written, panicked, configData>>

ParseSpec == ParseInit /\ [][ListRemotes]_vars

-----------------------------------------------------------------------------
(* Properties *)

IsAscending(s) == \A i \in 1..(Len(s) - 1) : s[i] <= s[i + 1]

\* How often chunk k has been transmitted again after its first transmission
Retries(k) == IF up.attempts[k] = 0 THEN 0 ELSE up.attempts[k] - 1

CallsOf(kind) == {i \in 1..Len(calls) : calls[i].kind = kind}

\* C1: in a sequential upload (parallelism 1) at most one chunk is in flight,
\* chunks are transmitted in ascending order and acknowledged as 1, 2, 3, ...,
\* no chunk is retried more than maxRetries times, and once a chunk has
\* exhausted its retries the upload has failed and no chunk after it has
\* been, or is ever, transmitted.
C1_SequentialInOrderThenAbort ==
    params.ParallelChunks = 1 =>
      /\ Cardinality(up.inflight) <= 1
      /\ IsAscending(sent)
      /\ \A i \in 1..Len(acks) : acks[i] = i
      /\ \A k \in 1..NumChunks : Retries(k) <= params.MaxRetries
      /\ up.failedChunk # 0 =>
           /\ up.status = "failed"
           /\ pc \in {"upload_returned", "done"}
           /\ up.inflight = {}
           /\ Retries(up.failedChunk) = params.MaxRetries
           /\ \A i \in 1..Len(sent) : sent[i] <= up.failedChunk
           /\ \A j \in 1..NumChunks :
                j > up.failedChunk => up.attempts[j] = 0

\* The second of three chunks has exhausted its retries after the first was
\* acknowledged, and the handler has answered.
C1_Witness ==
    /\ pc = "done" /\ params.ParallelChunks = 1
    /\ NumChunks = 3 /\ up.failedChunk = 2 /\ acks = <<1>>
    /\ Len(sent) = params.MaxRetries + 2

RangeLen(r) == r.end - r.start

RECURSIVE SumLen(_)
SumLen(rs) == IF rs = <<>> THEN 0 ELSE RangeLen(Head(rs)) + SumLen(Tail(rs))

\* The chunk size the request asked for, in the model's byte unit
RequestedChunkSize == ParseInt(req.chunkSizeStr).v * BytesPerMB

\* C2: for a file of size > 0 and a chunk size the handler accepts (2..32 MB),
\* the ranges start at 0, end at size, are non-empty and contiguous (so
\* strictly ascending and non-overlapping), sum to size, every range but the
\* last has the requested chunk size, and the last has size mod chunk size,
\* or the chunk size when that is 0.
C2_RangesPartitionFile ==
    pc = "upload_transport" =>
      LET rs == up.ranges
          n == Len(rs)
          size == req.fileSize
          cs == RequestedChunkSize
      IN /\ n >= 1
         /\ rs[1].start = 0
         /\ rs[n].end = size
         /\ \A i \in 1..n : rs[i].start < rs[i].end
         /\ \A i \in 1..(n - 1) :
              rs[i].end = rs[i + 1].start /\ RangeLen(rs[i]) = cs
         /\ RangeLen(rs[n]) = (IF size % cs = 0 THEN cs ELSE size % cs)
         /\ SumLen(rs) = size
         /\ MinChunkMB * BytesPerMB <= cs /\ cs <= MaxChunkMB * BytesPerMB

\* Three ranges, the last one shorter than the chunk size
C2_Witness ==
    /\ pc = "upload_transport"
    /\ Len(up.ranges) = 3
    /\ RangeLen(up.ranges[3]) < RequestedChunkSize
    /\ RangeLen(up.ranges[1]) = RequestedChunkSize

SuccessReported == \E i \in 1..Len(resp) : resp[i].kind = "success"

\* C4: a success response is written only when the upload completed: every
\* chunk acknowledged, the final answer a 200 or 201, no chunk out of
\* retries; an upload that failed, a chunk having exhausted its retries or
\* otherwise, is answered by one error response and no success response.
C4_NoPartialSuccess ==
    /\ SuccessReported =>
         /\ up.status = "complete"
         /\ NumChunks >= 1
         /\ Acked = 1..NumChunks
         /\ up.lastStatus \in {200, 201}
         /\ up.failedChunk = 0
    /\ (up.status = "failed" \/ up.failedChunk # 0) => ~SuccessReported
    /\ (pc = "done" /\ up.status = "failed") =>
         /\ Len(resp) = 1
         /\ resp[1].kind = "error"
         /\ resp[1].status = 500

\* An upload that lost its last chunk after the earlier ones were accepted,
\* answered with an error
C4_Witness ==
    /\ pc = "done"
    /\ NumChunks = 3 /\ acks = <<1, 2>> /\ up.failedChunk = 3
    /\ resp = <<sendErrorResponse(500, "Failed to upload file")>>

InvalidChunkSize(r) ==
    ParseInt(r.chunkSizeStr).err
      \/ ParseInt(r.chunkSizeStr).v < MinChunkMB
      \/ ParseInt(r.chunkSizeStr).v > MaxChunkMB

InvalidSize(r) == ~(0 < r.fileSize /\ r.fileSize <= MaxFileSize)

C7_EnsureValidRefreshCount ==
    req.path \in {"/upload", "/token"} =>
      /\ ~ensure.called => CallsOf("refresh") = {}
      /\ ensure.called =>
           /\ now + SafetyMargin < ensure.expiry0 =>
                /\ CallsOf("refresh") = {}
                /\ client.Expiration = ensure.expiry0
                /\ client.AccessToken = "at0"
           /\ ~(now + SafetyMargin < ensure.expiry0) =>
                Cardinality(CallsOf("refresh")) = 1
           /\ (CallsOf("refresh") # {} /\ ~ensure.err) =>
                /\ ensure.expiresIn >= 1
                /\ client.Expiration = now + ensure.expiresIn
                /\ client.AccessToken = "at1"

\* The token endpoint with a token that expires exactly at now + margin:
\* one refresh, the new expiry
C7_Witness ==
    /\ pc = "done" /\ req.path = "/token"
    /\ ensure.called /\ ensure.expiry0 = now + SafetyMargin
    /\ Cardinality(CallsOf("refresh")) = 1
    /\ ~ensure.err
    /\ client.Expiration = now + 1

CredentialFields == {"access_token", "refresh_token", "client_secret"}

\* C8: after a failed refresh on the upload or token path the only network
\* call made is the refresh: no session, chunk or quota call; the request is
\* answered by one 500 error response whose body has no credential field;
\* in the quota loop a remote whose refresh failed gets no quota call.
C8_RefreshFailureStopsCaller ==
    /\ ensure.err =>
         /\ \A i \in 1..Len(calls) : calls[i].kind = "refresh"
         /\ sent = <<>>
         /\ up.status # "complete"
         /\ \A i \in 1..Len(resp) :
              /\ resp[i].kind = "error"
              /\ resp[i].fields \cap CredentialFields = {}
         /\ pc = "done" => Len(resp) = 1 /\ resp[1].status = 500
    /\ req.path = "/quota" =>
         Cardinality(CallsOf("quota")) =
           Cardinality({i \in 1..Len(quota.outcome) :
                          quota.outcome[i] \in {"ok", "quota_error"}})

\* The token endpoint answered after its refresh failed
C8_Witness ==
    /\ pc = "done" /\ req.path = "/token"
    /\ ensure.err
    /\ resp = <<sendErrorResponse(500, "Failed to refresh token")>>
    /\ Len(calls) = 1

HasEntry(remote) == \E d \in quota.data : d.remote = remote

\* C9: the quota response holds an entry for a remote exactly when an
\* iteration for that remote succeeded; every remote is processed whatever
\* the outcome of the ones before it, and the response is then written.
C9_QuotaFailureIsolated ==
    req.path = "/quota" =>
      /\ \A i \in 1..Len(quota.remotes) :
           HasEntry(quota.remotes[i]) <=>
             \E j \in 1..Len(quota.outcome) :
               /\ quota.remotes[j] = quota.remotes[i]
               /\ quota.outcome[j] = "ok"
      /\ \A d \in quota.data :
           \E i \in 1..Len(quota.remotes) : quota.remotes[i] = d.remote
      /\ pc = "quota_loop" => Len(quota.outcome) = quota.idx - 1
      /\ (pc = "done" /\ req.method = "GET") =>
           /\ Len(quota.outcome) = Len(quota.remotes)
           /\ resp = <<QuotaResponse>>

\* Three remotes, the second one's fetch failed: entries for the other two
C9_Witness ==
    /\ pc = "done" /\ req.path = "/quota"
    /\ Len(quota.remotes) = 3
    /\ quota.outcome = <<"ok", "quota_error", "ok">>
    /\ HasEntry(quota.remotes[1]) /\ HasEntry(quota.remotes[3])
    /\ ~HasEntry(quota.remotes[2])
    /\ Cardinality(quota.data) = 2

\* C10: once the request is cancelled, no further chunk is transmitted.
C10_NoChunkAfterCancel == [][cancelled => sent' = sent]_vars


\* C11: on every path by which Handler ends after the temp file has been
\* created (copy failure, upload failure, success, recovered panic) the temp
\* file has been closed and removed when Handler returns; it is open only
\* while Handler is still running.
C11_TempFileRemovedAtReturn ==
    req.path = "/upload" =>
      /\ pc = "done" => tempFile \in {"none", "removed"}
      /\ (pc = "done" /\ (params # NoParams \/ written > 0)) =>
           tempFile = "removed"
      /\ tempFile = "open" => pc \in PanicPoints \ {"Handler"}

\* A fault in the middle of the chunk transport, and the staged file is gone
C11_Witness ==
    /\ pc = "done" /\ req.path = "/upload"
    /\ panicked /\ sent # <<>> /\ up.status = "uploading"
    /\ written = req.fileSize /\ written > 0
    /\ tempFile = "removed"

\* C12: a runtime fault inside Handler is recovered at the handler boundary:
\* the request is answered with 500 "Internal server error", and that is the
\* only response of the request.
C12_PanicBecomesInternalError ==
    req.path = "/upload" =>
      /\ Len(resp) <= 1
      /\ panicked =>
           /\ pc = "done"
           /\ resp = <<sendErrorResponse(500, "Internal server error")>>
           /\ resp[1].fields = {"error", "details"}

\* A fault after the upload session was created
C12_Witness ==
    /\ panicked /\ pc = "done"
    /\ \E i \in 1..Len(calls) : calls[i].kind = "session"
    /\ acks = <<>>
    /\ resp = <<sendErrorResponse(500, "Internal server error")>>

Newlines == {p \in 1..Len(configData) : configData[p] = "\n"}
NumLines == Cardinality(Newlines) + 1
NthNewline(k) ==
    CHOOSE p \in Newlines : Cardinality({q \in Newlines : q < p}) = k - 1
LineFirst(k) == IF k = 1 THEN 1 ELSE NthNewline(k - 1) + 1
LineLast(k) == IF k = NumLines THEN Len(configData) ELSE NthNewline(k) - 1

MinOf(S) == CHOOSE p \in S : \A q \in S : p <= q
MaxOf(S) == CHOOSE p \in S : \A q \in S : q <= p

\* The positions of line k that hold no white space
Inked(k) ==
    {p \in LineFirst(k)..LineLast(k) :
       configData[p] \notin {" ", "\t", "\r", "\n"}}

\* A section-marker line: white space aside, it starts with [ and ends with ]
IsMarkerLine(k) ==
    /\ Inked(k) # {}
    /\ configData[MinOf(Inked(k))] = "["
    /\ configData[MaxOf(Inked(k))] = "]"

\* The name of a marker line [name]: what stands between its two brackets
NameBetweenBrackets(k) ==
    SubSeq(configData, MinOf(Inked(k)) + 1, MaxOf(Inked(k)) - 1)

\* The marker line without any bracket at its start or end
NameStripped(k) ==
    LET core == {p \in MinOf(Inked(k))..MaxOf(Inked(k)) :
                   configData[p] \notin {"[", "]"}}
    IN IF core = {} THEN <<>>
       ELSE SubSeq(configData, MinOf(core), MaxOf(core))

\* The non-empty names of the marker lines, one per line, in line order
NamesInOrder(NameOf(_)) ==
    LET idx == {k \in 1..NumLines : IsMarkerLine(k) /\ NameOf(k) # <<>>}
        nth(j) == CHOOSE k \in idx : Cardinality({m \in idx : m < k}) = j - 1
    IN [j \in 1..Cardinality(idx) |-> NameOf(nth(j))]

\* C14 as stated: for every config text ParseRemotes returns exactly the
\* names of the [name] section-marker lines, the name being what stands
\* between the brackets, once per occurrence and in line order.
C14_SectionNamesInOrder ==
    pc = "quota_loop" => quota.remotes = NamesInOrder(NameBetweenBrackets)

\* C14 as amended: for every config text ParseRemotes returns the names of
\* the section-marker lines, once per occurrence and in line order, where the
\* name of a marker line is the line with every bracket at its start and at
\* its end stripped, and a marker whose name is then empty is left out.
C14_StrippedSectionNamesInOrder ==
    pc = "quota_loop" => quota.remotes = NamesInOrder(NameStripped)

\* Two lines, one of them a marker with a doubled bracket, listed stripped
C14_Witness ==
    /\ pc = "quota_loop"
    /\ NumLines = 2
    /\ Len(quota.remotes) = 1
    /\ \E k \in 1..NumLines :
         /\ IsMarkerLine(k)
         /\ NameStripped(k) # <<>>
         /\ NameStripped(k) # NameBetweenBrackets(k)
         /\ quota.remotes[1] = NameStripped(k)

\* C15: a request that declares more than 5 GiB is answered 413 and neither
\* the routing nor a handler runs for it; whatever the declared length, the
\* upload handler stages at most 5 GiB.
C15_RequestSizeLimit ==
    /\ (/\ req.path \in {"/upload", "/quota"}
        /\ ContentLength(req) > maxRequestSize
        /\ pc # "recv") =>
         /\ pc = "done"
         /\ resp = <<TooLargeResponse>>
         /\ tempFile = "none" /\ written = 0 /\ ~panicked
         /\ client = NoClient /\ params = NoParams /\ up = NoUpload
         /\ quota = NoQuota /\ calls = <<>> /\ sent = <<>>
    /\ written <= maxRequestSize
    /\ written <= MaxFileSize

\* An upload declaring one unit more than the limit, refused
C15_Witness ==
    /\ pc = "done" /\ req.path = "/upload" /\ req.method = "POST"
    /\ req.declared /\ req.fileSize = maxRequestSize + 1
    /\ resp = <<TooLargeResponse>>
    /\ tempFile = "none"

====
